---- MODULE Spec2Model ----
(***************************************************************************)
(* The contact endpoint of fusion-portfolio (app/api/contact/route.ts):    *)
(* the in-memory rate limiter isRateLimited, the global request budget and *)
(* the POST handler that drives them, as a state machine over a clock.     *)
(* Times are milliseconds, as Date.now() returns them.                     *)
(***************************************************************************)
EXTENDS Integers, Sequences, FiniteSets, Bags, TLC

(* ---------------- SECURITY_CONFIG (route.ts 7-27) ---------------- *)
maxRequestSize == 1024 * 10
maxRequests == 5
windowMs == 15 * 60 * 1000
maxConcurrentRequests == 3
requestTimeout == 30000
suspiciousPatternThreshold == 3
globalMaxRequests == 100
globalWindowMs == 60 * 1000
\* the literal 60 * 60 * 1000 of lines 75 and 82
blockMs == 60 * 60 * 1000
\* the literal 1000 of line 414
processingDelay == 1000
maxMessageLength == 2000
maxNameLength == 100
maxEmailLength == 254

(* ---------------- bounds of the model ---------------- *)
\* the clock stops at MaxNowTicks * requestTimeout ms
MaxNowTicks == 124
\* requests that may be awaiting their body, the mail or the delay at once
MaxInFlight == 1
\* POSTs the environment sends within one global window (core specification)
MaxBurst == 6

\* POSTs the environment sends within one global window (overload specification)
MaxGlobalBurst == 103
\* the clock of the overload specification stops at MaxGlobalTicks * requestTimeout ms
MaxGlobalTicks == 3

\* requests suspended at once in the concurrency specification
MaxConcInFlight == 4
\* the clock of the concurrency specification stops at MaxConcTicks * requestTimeout ms
MaxConcTicks == 2

\* the clock of the identifier specification stops at MaxIdentTicks * requestTimeout ms
MaxIdentTicks == 1
\* the longest string the sanitizer specification enumerates
MaxSanLen == 3

MaxNow == MaxNowTicks * requestTimeout
MaxConcNow == MaxConcTicks * requestTimeout
MaxGlobalNow == MaxGlobalTicks * requestTimeout
MaxIdentNow == MaxIdentTicks * requestTimeout

VARIABLES
    now,              \* Date.now()
    rateLimit,        \* the Map rateLimit: a function on the keys present
    globalRateLimit,  \* the object globalRateLimit
    timers,           \* pending setTimeout callbacks of isRateLimited, FIFO
    inflight,         \* POST invocations suspended at an await (a bag)
    resp,             \* what the last step returned
    san               \* a string put through sanitizeInput, apart from any request

vars == <<now, rateLimit, globalRateLimit, timers, inflight, resp, san>>

NoHeader == ""
\* a request without a content-length header (headers.get returns null)
NoLength == -1
UNKNOWN == "unknown"

\* the string input is about to be sanitized to at most maxLength characters
SanCall(input, maxLength) ==
    [input |-> input, maxLength |-> maxLength, once |-> <<>>, twice |-> <<>>,
     passes |-> 0]

\* line 12
allowedOrigins ==
    <<"http://localhost:3000", "http://localhost:3001", "https://riaanvanrhyn.dev",
      "https://portfoliov2-kappa-ecru.vercel.app">>

\* lines 116-127; a request without an Origin header gives null
getCORSHeaders(origin) ==
    LET allowedOrigin ==
            IF origin # NoHeader /\ \E i \in 1..Len(allowedOrigins) : allowedOrigins[i] = origin
            THEN origin
            ELSE allowedOrigins[1]
    IN  ("Access-Control-Allow-Origin" :> allowedOrigin)
        @@ ("Access-Control-Allow-Methods" :> "POST, OPTIONS")
        @@ ("Access-Control-Allow-Headers" :> "Content-Type, X-Requested-With")
        @@ ("Access-Control-Max-Age" :> "86400")

\* lines 130-139 (the content security policy is cut short)
getSecurityHeaders ==
    ("X-Content-Type-Options" :> "nosniff")
    @@ ("X-Frame-Options" :> "DENY")
    @@ ("X-XSS-Protection" :> "1; mode=block")
    @@ ("Referrer-Policy" :> "strict-origin-when-cross-origin")
    @@ ("Permissions-Policy" :> "camera=(), microphone=(), geolocation=()")
    @@ ("Content-Security-Policy" :> "default-src 'self'; ...")

\* { ...first, ...second }: second wins where both have the key
Spread(first, second) == second @@ first

\* What a step leaves to be observed: op names the step, ip the client it
\* served, status the HTTP status it answered with (0: no response yet), rl the
\* verdict of isRateLimited, io the outcome of sendMail and of the store, req
\* and origin the headers of the request it read, headers the response's.
NoReq == [xff |-> NoHeader, xri |-> NoHeader, cf |-> NoHeader]

NoIo == [sent |-> FALSE, stored |-> FALSE]

Response(op, ip, status, rl) ==
    [op |-> op, ip |-> ip, status |-> status, rl |-> rl, io |-> NoIo,
     req |-> NoReq, origin |-> NoHeader, headers |-> <<>>]

NoResp == Response("none", "", 0, "skipped")

\* the responses of POST: lines 163-170, 179-186, 198-205, ..., 421-426, 437-444
Answer(op, ip, status, rl, origin) ==
    [Response(op, ip, status, rl) EXCEPT
        !.origin = origin,
        !.headers = Spread(getCORSHeaders(origin), getSecurityHeaders)]

(* ---------------- isRateLimited (route.ts 45-99) ---------------- *)

\* a comparison that lets the entry expire one millisecond early
ExpiredInclusive(userData, t) == t >= userData.resetTime

\* line 49: !userData || now > userData.resetTime
Expired(userData, t) == t > userData.resetTime

NeedsNewEntry(rl, ip, t) == ip \notin DOMAIN rl \/ Expired(rl[ip], t)

\* an entry whose creating request is not counted against the window
NewEntryUncounted(t) ==
    [count |-> 0,
     resetTime |-> t + windowMs,
     blocked |-> FALSE,
     suspiciousAttempts |-> 0,
     lastRequestTime |-> t,
     concurrentRequests |-> 1]

\* lines 51-58: the entry written on creation or expiry
NewEntry(t) ==
    [count |-> 1,
     resetTime |-> t + windowMs,
     blocked |-> FALSE,
     suspiciousAttempts |-> 0,
     lastRequestTime |-> t,
     concurrentRequests |-> 1]

\* a concurrency check that lets one more request in
ConcurrencyExceededStrict(userData) ==
    userData.concurrentRequests > maxConcurrentRequests

\* line 68
ConcurrencyExceeded(userData) ==
    userData.concurrentRequests >= maxConcurrentRequests

\* a strict comparison against the threshold
SuspiciousExceededStrict(userData) ==
    userData.suspiciousAttempts > suspiciousPatternThreshold

\* line 73
SuspiciousExceeded(userData) ==
    userData.suspiciousAttempts >= suspiciousPatternThreshold

\* a strict comparison: one request more than maxRequests gets through
RateExceededStrict(userData) == userData.count > maxRequests

\* a limit that is one too low: the fifth request is turned away
RateExceededEarly(userData) == userData.count >= maxRequests - 1

\* line 79
RateExceeded(userData) == userData.count >= maxRequests

\* a block that also stamps the entry with the time of the refused request
BlockEntryTouching(userData, t) ==
    [userData EXCEPT !.blocked = TRUE, !.resetTime = t + blockMs, !.lastRequestTime = t]

\* lines 74-75 and 81-82
BlockEntry(userData, t) ==
    [userData EXCEPT !.blocked = TRUE, !.resetTime = t + blockMs]

\* an admission that wipes the record of suspicious submissions
AdmitEntryForgiving(userData, t) ==
    [userData EXCEPT !.count = @ + 1,
                     !.concurrentRequests = @ + 1,
                     !.lastRequestTime = t,
                     !.suspiciousAttempts = 0]

\* an admission that takes a slot but is not counted against the window
AdmitEntryUncounted(userData, t) ==
    [userData EXCEPT !.concurrentRequests = @ + 1,
                     !.lastRequestTime = t]

\* lines 86-88
AdmitEntry(userData, t) ==
    [userData EXCEPT !.count = @ + 1,
                     !.concurrentRequests = @ + 1,
                     !.lastRequestTime = t]

MapSet(rl, ip, e) ==
    [k \in DOMAIN rl \cup {ip} |-> IF k = ip THEN e ELSE rl[k]]

\* a limiter that looks at the suspicious threshold and the rate before the
\* concurrency limit
isRateLimitedConcurrencyLast(rl, ip, t) ==
    IF NeedsNewEntry(rl, ip, t)
    THEN [limited |-> FALSE, map |-> MapSet(rl, ip, NewEntry(t)), timer |-> FALSE]
    ELSE LET userData == rl[ip] IN
         IF userData.blocked
         THEN [limited |-> TRUE, map |-> rl, timer |-> FALSE]
         ELSE IF SuspiciousExceeded(userData) \/ RateExceeded(userData)
         THEN [limited |-> TRUE, map |-> MapSet(rl, ip, BlockEntry(userData, t)),
               timer |-> FALSE]
         ELSE IF ConcurrencyExceeded(userData)
         THEN [limited |-> TRUE, map |-> rl, timer |-> FALSE]
         ELSE [limited |-> FALSE, map |-> MapSet(rl, ip, AdmitEntry(userData, t)),
               timer |-> TRUE]

\* The whole function: the verdict, the map afterwards and whether a
\* setTimeout was scheduled (only the path of lines 86-98 schedules one).
isRateLimited(rl, ip, t) ==
    IF NeedsNewEntry(rl, ip, t)
    THEN [limited |-> FALSE, map |-> MapSet(rl, ip, NewEntry(t)), timer |-> FALSE]
    ELSE LET userData == rl[ip] IN
         IF userData.blocked
         THEN [limited |-> TRUE, map |-> rl, timer |-> FALSE]
         ELSE IF ConcurrencyExceeded(userData)
         THEN [limited |-> TRUE, map |-> rl, timer |-> FALSE]
         ELSE IF SuspiciousExceeded(userData)
         THEN [limited |-> TRUE, map |-> MapSet(rl, ip, BlockEntry(userData, t)),
               timer |-> FALSE]
         ELSE IF RateExceeded(userData)
         THEN [limited |-> TRUE, map |-> MapSet(rl, ip, BlockEntry(userData, t)),
               timer |-> FALSE]
         ELSE [limited |-> FALSE, map |-> MapSet(rl, ip, AdmitEntry(userData, t)),
               timer |-> TRUE]

\* a callback that releases a slot of every client, not only of its own
TimerCallbackAll(rl, ip) ==
    [k \in DOMAIN rl |->
        [rl[k] EXCEPT !.concurrentRequests = IF @ - 1 > 0 THEN @ - 1 ELSE 0]]

\* a callback that hands the unit of budget back with the concurrency slot
TimerCallbackRefunding(rl, ip) ==
    IF ip \in DOMAIN rl
    THEN MapSet(rl, ip,
                [rl[ip] EXCEPT !.concurrentRequests = IF @ - 1 > 0 THEN @ - 1 ELSE 0,
                               !.count = IF @ - 1 > 1 THEN @ - 1 ELSE 1])
    ELSE rl

\* a deferred decrement that is lost: the entry keeps its concurrency units
TimerCallbackLost(rl, ip) == rl

\* a callback that drops the entry once its last slot is released
TimerCallbackEvicting(rl, ip) ==
    IF ip \in DOMAIN rl
    THEN IF rl[ip].concurrentRequests - 1 > 0
         THEN MapSet(rl, ip, [rl[ip] EXCEPT !.concurrentRequests = @ - 1])
         ELSE [k \in DOMAIN rl \ {ip} |-> rl[k]]
    ELSE rl

\* lines 91-96: the callback of setTimeout
TimerCallback(rl, ip) ==
    IF ip \in DOMAIN rl
    THEN MapSet(rl, ip,
                [rl[ip] EXCEPT !.concurrentRequests =
                    IF @ - 1 > 0 THEN @ - 1 ELSE 0])
    ELSE rl

(* ---------------- POST (route.ts 151-447) ---------------- *)

\* a counter that stops one above the limit
GlobalAfterSaturating(g, t) ==
    IF t > g.resetTime
    THEN [count |-> 1, resetTime |-> t + globalWindowMs]
    ELSE [g EXCEPT !.count = IF @ > globalMaxRequests THEN @ ELSE @ + 1]

\* lines 155-159: the global counter after this request touched it
GlobalAfter(g, t) ==
    IF t > g.resetTime
    THEN [count |-> 1, resetTime |-> t + globalWindowMs]
    ELSE [g EXCEPT !.count = @ + 1]

\* an equality test: only the request that crosses the limit is turned away
GlobalRejectsOnce(g, t) ==
    ~(t > g.resetTime) /\ GlobalAfter(g, t).count = globalMaxRequests + 1

\* lines 155 and 160: this request is turned away with 503
GlobalRejects(g, t) ==
    ~(t > g.resetTime) /\ GlobalAfter(g, t).count > globalMaxRequests

\* lines 176-177
TooLarge(contentLength) ==
    contentLength # NoLength /\ contentLength > maxRequestSize

\* a lookup that prefers x-real-ip to x-forwarded-for
ClientIpRealFirst(h) ==
    IF h.xri # NoHeader THEN h.xri
    ELSE IF h.xff # NoHeader THEN h.xff
    ELSE IF h.cf # NoHeader THEN h.cf
    ELSE UNKNOWN

\* lines 191-194
ClientIp(h) ==
    IF h.xff # NoHeader THEN h.xff
    ELSE IF h.xri # NoHeader THEN h.xri
    ELSE IF h.cf # NoHeader THEN h.cf
    ELSE UNKNOWN

\* a record that blocks the client itself once the threshold is reached
RecordSuspiciousBlocking(rl, ip) ==
    IF ip \in DOMAIN rl
    THEN MapSet(rl, ip,
                [rl[ip] EXCEPT !.suspiciousAttempts = @ + 1,
                               !.blocked = (rl[ip].suspiciousAttempts + 1 >= suspiciousPatternThreshold)])
    ELSE rl

\* lines 292-295: the suspicious counter of the client's entry, if it has one
RecordSuspicious(rl, ip) ==
    IF ip \in DOMAIN rl
    THEN MapSet(rl, ip, [rl[ip] EXCEPT !.suspiciousAttempts = @ + 1])
    ELSE rl

(* ---------------- strings, sanitizeInput and the content checks ---------------- *)
\* A string is the sequence of its characters.

LowerCase ==
    <<"a", "b", "c", "d", "e", "f", "g", "h", "i", "j", "k", "l", "m",
      "n", "o", "p", "q", "r", "s", "t", "u", "v", "w", "x", "y", "z">>

UpperCase ==
    <<"A", "B", "C", "D", "E", "F", "G", "H", "I", "J", "K", "L", "M",
      "N", "O", "P", "Q", "R", "S", "T", "U", "V", "W", "X", "Y", "Z">>

Letters == {LowerCase[i] : i \in 1..Len(LowerCase)} \cup {UpperCase[i] : i \in 1..Len(UpperCase)}

Digits == {"0", "1", "2", "3", "4", "5", "6", "7", "8", "9"}

\* the class \w
WordChars == Letters \cup Digits \cup {"_"}

\* the characters trim() strips and \s matches (those that occur in the model)
WhiteSpace == {" ", "\t", "\n", "\r"}

\* the flag i of the patterns, and String.prototype.toLowerCase
ToLower(c) ==
    IF \E i \in 1..Len(UpperCase) : UpperCase[i] = c
    THEN LowerCase[CHOOSE i \in 1..Len(UpperCase) : UpperCase[i] = c]
    ELSE c

LowerOf(s) == [i \in 1..Len(s) |-> ToLower(s[i])]

RECURSIVE TrimLeft(_)
TrimLeft(s) ==
    IF s # <<>> /\ Head(s) \in WhiteSpace THEN TrimLeft(Tail(s)) ELSE s

RECURSIVE TrimRight(_)
TrimRight(s) ==
    IF s # <<>> /\ s[Len(s)] \in WhiteSpace
    THEN TrimRight(SubSeq(s, 1, Len(s) - 1))
    ELSE s

\* line 103: .trim()
Trim(s) == TrimRight(TrimLeft(s))

\* line 104: .slice(0, maxLength)
Slice(s, maxLength) ==
    SubSeq(s, 1, IF maxLength < Len(s) THEN maxLength ELSE Len(s))

\* line 105: .replace(/[<>]/g, '')
StripChars(s, cs) == SelectSeq(s, LAMBDA c : c \notin cs)

\* s starts with the literal pat (given in lower case), whatever the case
HasPrefix(s, pat) ==
    /\ Len(s) >= Len(pat)
    /\ LowerOf(SubSeq(s, 1, Len(pat))) = pat

\* .replace(/pat/gi, ''): one pass from the left, matches do not overlap
RECURSIVE RemoveAll(_, _)
RemoveAll(s, pat) ==
    IF s = <<>> THEN <<>>
    ELSE IF HasPrefix(s, pat)
    THEN RemoveAll(SubSeq(s, Len(pat) + 1, Len(s)), pat)
    ELSE <<Head(s)>> \o RemoveAll(Tail(s), pat)

\* the number of word characters s starts with
RECURSIVE WordRun(_)
WordRun(s) ==
    IF s # <<>> /\ Head(s) \in WordChars THEN 1 + WordRun(Tail(s)) ELSE 0

\* the length of the match of /on\w+=/i at the start of s, 0 if there is none:
\* "=" is no word character, so \w+ takes the whole run
HandlerMatch(s) ==
    IF HasPrefix(s, <<"o", "n">>)
    THEN LET k == WordRun(SubSeq(s, 3, Len(s)))
         IN  IF k >= 1 /\ Len(s) >= 3 + k /\ s[3 + k] = "=" THEN 3 + k ELSE 0
    ELSE 0

\* line 109: .replace(/on\w+=/gi, '')
RECURSIVE RemoveHandlers(_)
RemoveHandlers(s) ==
    IF s = <<>> THEN <<>>
    ELSE IF HandlerMatch(s) > 0
    THEN RemoveHandlers(SubSeq(s, HandlerMatch(s) + 1, Len(s)))
    ELSE <<Head(s)>> \o RemoveHandlers(Tail(s))

JavascriptScheme == <<"j", "a", "v", "a", "s", "c", "r", "i", "p", "t", ":">>
DataScheme == <<"d", "a", "t", "a", ":">>
VbscriptScheme == <<"v", "b", "s", "c", "r", "i", "p", "t", ":">>
ScriptOpen == <<"<", "s", "c", "r", "i", "p", "t">>
ScriptClose == <<"<", "/", "s", "c", "r", "i", "p", "t">>

\* lines 102-113
sanitizeInput(input, maxLength) ==
    RemoveAll(
        RemoveAll(
            RemoveHandlers(
                RemoveAll(
                    RemoveAll(
                        RemoveAll(
                            StripChars(Slice(Trim(input), maxLength), {"<", ">"}),
                            JavascriptScheme),
                        DataScheme),
                    VbscriptScheme)),
            ScriptOpen),
        ScriptClose)

\* pattern.test(s) for a literal pattern with the flag i
Contains(s, pat) ==
    \E i \in 1..(Len(s) - Len(pat) + 1) : HasPrefix(SubSeq(s, i, Len(s)), pat)

\* /eval\s*\(/i
ContainsEvalCall(s) ==
    \E i \in 1..Len(s) :
        /\ HasPrefix(SubSeq(s, i, Len(s)), <<"e", "v", "a", "l">>)
        /\ \E j \in (i + 4)..Len(s) :
            /\ s[j] = "("
            /\ \A k \in (i + 4)..(j - 1) : s[k] \in WhiteSpace

\* lines 278-287, /eval\s*\(/i apart
suspiciousPatterns ==
    {<<"<", "i", "f", "r", "a", "m", "e">>,
     <<"<", "o", "b", "j", "e", "c", "t">>,
     <<"<", "e", "m", "b", "e", "d">>,
     JavascriptScheme,
     VbscriptScheme,
     <<"d", "a", "t", "a", ":", "t", "e", "x", "t", "/", "h", "t", "m", "l">>,
     ScriptOpen}

\* line 290
IsSuspicious(allInput) ==
    \/ ContainsEvalCall(allInput)
    \/ \E pat \in suspiciousPatterns : Contains(allInput, pat)

\* line 258: /^[a-zA-Z0-9._%+-]+@[a-zA-Z0-9.-]+\.[a-zA-Z]{2,}$/
emailRegex(email) ==
    \E at \in 1..Len(email), dot \in 1..Len(email) :
        /\ email[at] = "@" /\ email[dot] = "."
        /\ 1 < at /\ at + 1 < dot /\ dot + 2 <= Len(email)
        /\ \A i \in 1..(at - 1) :
              email[i] \in Letters \cup Digits \cup {".", "_", "%", "+", "-"}
        /\ \A i \in (at + 1)..(dot - 1) :
              email[i] \in Letters \cup Digits \cup {".", "-"}
        /\ \A i \in (dot + 1)..Len(email) : email[i] \in Letters

\* line 289: the three sanitized fields joined by blanks
allInputOf(p) ==
    sanitizeInput(p.name, maxNameLength) \o <<" ">>
    \o sanitizeInput(LowerOf(p.email), maxEmailLength) \o <<" ">>
    \o sanitizeInput(p.message, maxMessageLength)

\* lines 224-308: what the handler makes of the body p of a request.  A field
\* that is absent or empty is the empty string; parses tells whether
\* request.json() returns.
Classify(p) ==
    IF ~p.parses THEN "malformed"
    ELSE IF p.name = <<>> \/ p.email = <<>> \/ p.message = <<>> THEN "missing"
    ELSE IF \/ Len(p.name) > maxNameLength
            \/ Len(p.email) > maxEmailLength
            \/ Len(p.message) > maxMessageLength THEN "toolong"
    ELSE IF ~emailRegex(p.email) THEN "bademail"
    ELSE IF IsSuspicious(allInputOf(p)) THEN "suspicious"
    ELSE "clean"

\* The event loop runs the timers that are due before it takes up a request or
\* resumes a handler, and before the clock is seen to move on.
NothingDue ==
    /\ IF timers = <<>> THEN TRUE ELSE Head(timers).due > now
    /\ \A r \in BagToSet(inflight) : r.pc = "sleep" => r.due > now

\* PostStart with the per-client limiter consulted before the global budget:
\* a request refused with 503 or 413 has already been counted against its
\* client.
PostStartLimiterFirst(h) ==
    LET g2 == GlobalAfter(globalRateLimit, now)
        ip == ClientIp(h)
        r  == isRateLimited(rateLimit, ip, now)
        Started(status, rl) ==
            [(IF status = 0
              THEN [Response("start", ip, status, rl) EXCEPT !.origin = h.origin]
              ELSE Answer("start", ip, status, rl, h.origin))
             EXCEPT !.req = [xff |-> h.xff, xri |-> h.xri, cf |-> h.cf]]
    IN  /\ NothingDue
        /\ globalRateLimit' = g2
        /\ UNCHANGED <<now, san>>
        /\ rateLimit' = r.map
        /\ timers' = IF r.timer
                     THEN Append(timers, [ip |-> ip, due |-> now + requestTimeout])
                     ELSE timers
        /\ IF GlobalRejects(globalRateLimit, now)
           THEN /\ resp' = Started(503, "skipped")
                /\ UNCHANGED inflight
           ELSE IF TooLarge(h.contentLength)
           THEN /\ resp' = Started(413, "skipped")
                /\ UNCHANGED inflight
           ELSE IF r.limited
           THEN /\ resp' = Started(429, "rejected")
                /\ UNCHANGED inflight
           ELSE IF ~h.json
           THEN /\ resp' = Started(400, "admitted")
                /\ UNCHANGED inflight
           ELSE /\ resp' = Started(0, "admitted")
                /\ inflight' = inflight (+) SetToBag({[ip |-> ip, pc |-> "json", due |-> 0,
                                                       origin |-> h.origin]})

\* lines 151-224: from the entry of POST to the first await (request.json())
PostStart(h) ==
    LET g2 == GlobalAfter(globalRateLimit, now)
        ip == ClientIp(h)
        r  == isRateLimited(rateLimit, ip, now)
        Started(status, rl) ==
            [(IF status = 0
              THEN [Response("start", ip, status, rl) EXCEPT !.origin = h.origin]
              ELSE Answer("start", ip, status, rl, h.origin))
             EXCEPT !.req = [xff |-> h.xff, xri |-> h.xri, cf |-> h.cf]]
    IN  /\ NothingDue
        /\ globalRateLimit' = g2
        /\ UNCHANGED <<now, san>>
        /\ IF GlobalRejects(globalRateLimit, now)
           THEN /\ resp' = Started(503, "skipped")
                /\ UNCHANGED <<rateLimit, timers, inflight>>
           ELSE IF TooLarge(h.contentLength)
           THEN /\ resp' = Started(413, "skipped")
                /\ UNCHANGED <<rateLimit, timers, inflight>>
           ELSE /\ rateLimit' = r.map
                /\ timers' = IF r.timer
                             THEN Append(timers, [ip |-> ip, due |-> now + requestTimeout])
                             ELSE timers
                /\ IF r.limited
                   THEN /\ resp' = Started(429, "rejected")
                        /\ UNCHANGED inflight
                   ELSE IF ~h.json
                   THEN /\ resp' = Started(400, "admitted")
                        /\ UNCHANGED inflight
                   ELSE /\ resp' = Started(0, "admitted")
                        /\ inflight' = inflight (+) SetToBag({[ip |-> ip, pc |-> "json", due |-> 0,
                                                               origin |-> h.origin]})

\* lines 224-308: request.json() settled; validation and the suspicious scan.
\* body is the class of the payload: what the checks of lines 224-290 make of it.
PostBody(r, body) ==
    /\ r \in BagToSet(inflight) /\ r.pc = "json"
    /\ NothingDue
    /\ UNCHANGED <<now, globalRateLimit, timers, san>>
    /\ IF body = "malformed"
       THEN \* request.json() (or a method call on a non-string field) throws: line 428
            /\ resp' = Answer("body", r.ip, 500, "skipped", r.origin)
            /\ inflight' = inflight (-) SetToBag({r})
            /\ UNCHANGED rateLimit
       ELSE IF body \in {"missing", "toolong", "bademail"}
       THEN \* lines 228, 242, 259
            /\ resp' = Answer("body", r.ip, 400, "skipped", r.origin)
            /\ inflight' = inflight (-) SetToBag({r})
            /\ UNCHANGED rateLimit
       ELSE IF body = "suspicious"
       THEN \* lines 290-307
            /\ rateLimit' = RecordSuspicious(rateLimit, r.ip)
            /\ resp' = Answer("suspicious", r.ip, 400, "skipped", r.origin)
            /\ inflight' = inflight (-) SetToBag({r})
       ELSE \* line 355: await transporter.sendMail
            /\ resp' = Response("body", r.ip, 0, "skipped")
            /\ inflight' = (inflight (-) SetToBag({r})) (+) SetToBag({[r EXCEPT !.pc = "mail"]})
            /\ UNCHANGED rateLimit

\* a handler that lets a failure of sendMail reach the catch of line 428
PostMailThrowing(r, mailOk, dbOk) ==
    /\ r \in BagToSet(inflight) /\ r.pc = "mail"
    /\ NothingDue
    /\ UNCHANGED <<now, rateLimit, globalRateLimit, timers, san>>
    /\ IF mailOk
       THEN /\ resp' = [Response("mail", r.ip, 0, "skipped") EXCEPT
                           !.io = [sent |-> mailOk, stored |-> dbOk], !.origin = r.origin]
            /\ inflight' = (inflight (-) SetToBag({r}))
                           (+) SetToBag({[r EXCEPT !.pc = "sleep", !.due = now + processingDelay]})
       ELSE /\ resp' = [Answer("mail", r.ip, 500, "skipped", r.origin) EXCEPT
                           !.io = [sent |-> mailOk, stored |-> dbOk]]
            /\ inflight' = inflight (-) SetToBag({r})

\* lines 354-414: sendMail settled (mailOk: it resolved, otherwise it threw and
\* line 357 caught it), the submission is stored (dbOk) or the store threw and
\* line 399 caught it, then the handler awaits the delay.
PostMail(r, mailOk, dbOk) ==
    /\ r \in BagToSet(inflight) /\ r.pc = "mail"
    /\ NothingDue
    /\ UNCHANGED <<now, rateLimit, globalRateLimit, timers, san>>
    /\ resp' = [Response("mail", r.ip, 0, "skipped") EXCEPT
                    !.io = [sent |-> mailOk, stored |-> dbOk], !.origin = r.origin]
    /\ inflight' = (inflight (-) SetToBag({r}))
                   (+) SetToBag({[r EXCEPT !.pc = "sleep", !.due = now + processingDelay]})

\* lines 414-426: the delay elapsed; the success response
PostDone(r) ==
    /\ r \in BagToSet(inflight) /\ r.pc = "sleep" /\ now >= r.due
    /\ UNCHANGED <<now, rateLimit, globalRateLimit, timers, san>>
    /\ resp' = Answer("done", r.ip, 200, "skipped", r.origin)
    /\ inflight' = inflight (-) SetToBag({r})

\* a callback bound to the entry its request saw: it leaves alone an entry
\* that was created after the decrement was scheduled
FireTimerSameEntryOnly ==
    /\ timers # <<>> /\ now >= Head(timers).due
    /\ rateLimit' =
          IF /\ Head(timers).ip \in DOMAIN rateLimit
             /\ ~rateLimit[Head(timers).ip].blocked
             /\ rateLimit[Head(timers).ip].resetTime - windowMs > Head(timers).due - requestTimeout
          THEN rateLimit
          ELSE TimerCallback(rateLimit, Head(timers).ip)
    /\ timers' = Tail(timers)
    /\ resp' = Response("timer", Head(timers).ip, 0, "skipped")
    /\ UNCHANGED <<now, globalRateLimit, inflight, san>>

\* lines 91-96: the oldest pending callback runs once it is due
FireTimer ==
    /\ timers # <<>> /\ now >= Head(timers).due
    /\ rateLimit' = TimerCallback(rateLimit, Head(timers).ip)
    /\ timers' = Tail(timers)
    /\ resp' = Response("timer", Head(timers).ip, 0, "skipped")
    /\ UNCHANGED <<now, globalRateLimit, inflight, san>>

\* lines 141-149: the preflight handler takes no request
OPTIONS(origin) ==
    /\ NothingDue
    /\ resp' = [Response("options", "", 200, "skipped") EXCEPT
                    !.origin = origin,
                    !.headers = Spread(getCORSHeaders(NoHeader), getSecurityHeaders)]
    /\ UNCHANGED <<now, rateLimit, globalRateLimit, timers, inflight, san>>

\* lines 450-462
GET(origin) ==
    /\ NothingDue
    /\ resp' = [Response("get", "", 200, "skipped") EXCEPT
                    !.origin = origin,
                    !.headers = getSecurityHeaders]
    /\ UNCHANGED <<now, rateLimit, globalRateLimit, timers, inflight, san>>

\* sanitizeInput is called on san.input, and then on what that call returned
SanitizeOnce ==
    /\ san.passes = 0
    /\ san' = [san EXCEPT !.once = sanitizeInput(san.input, san.maxLength),
                          !.passes = 1]
    /\ UNCHANGED <<now, rateLimit, globalRateLimit, timers, inflight, resp>>

SanitizeTwice ==
    /\ san.passes = 1
    /\ san' = [san EXCEPT !.twice = sanitizeInput(san.once, san.maxLength),
                          !.passes = 2]
    /\ UNCHANGED <<now, rateLimit, globalRateLimit, timers, inflight, resp>>

\* Date.now() advances by d ms
Tick(d) ==
    /\ NothingDue
    /\ now' = now + d
    /\ resp' = NoResp
    /\ UNCHANGED <<rateLimit, globalRateLimit, timers, inflight, san>>

\* the module has just been loaded: lines 30-43
InitServer ==
    /\ now = 0
    /\ rateLimit = [k \in {} |-> 0]
    /\ globalRateLimit = [count |-> 0, resetTime |-> 0 + globalWindowMs]
    /\ timers = <<>>
    /\ inflight = EmptyBag
    /\ resp = NoResp

Init ==
    /\ InitServer
    /\ san = SanCall(<<>>, 0)

(* ---------------- the environment and the specifications ---------------- *)

\* the headers of a request; it carries no Origin unless WithOrigin adds one
Header(xff, xri, cf, len, json) ==
    [xff |-> xff, xri |-> xri, cf |-> cf, contentLength |-> len, json |-> json,
     origin |-> NoHeader]

WithOrigin(h, origin) == [h EXCEPT !.origin = origin]

\* request bodies: one of every kind the handler tells apart
Submission(name, email, message) ==
    [parses |-> TRUE, name |-> name, email |-> email, message |-> message]

NotJson == [parses |-> FALSE, name |-> <<>>, email |-> <<>>, message |-> <<>>]

AnaName == <<"A", "n", "a">>
AnaEmail == <<"a", "n", "a", "@", "e", "x", "a", "m", "p", "l", "e", ".", "c", "o", "m">>
Hello == <<"H", "e", "l", "l", "o">>
EvalCall == <<"e", "v", "a", "l", "(", "1", ")">>
\* <script>alert(1)</script>
ScriptAlert ==
    <<"<", "s", "c", "r", "i", "p", "t", ">", "a", "l", "e", "r", "t", "(", "1", ")",
      "<", "/", "s", "c", "r", "i", "p", "t", ">">>

Payloads ==
    {NotJson,
     Submission(<<>>, AnaEmail, Hello),
     Submission(AnaName, AnaEmail, [i \in 1..(maxMessageLength + 1) |-> "a"]),
     Submission(AnaName, AnaName, Hello),
     Submission(AnaName, AnaEmail, EvalCall),
     Submission(AnaName, AnaEmail, Hello)}

\* what the handler makes of them: malformed, missing, toolong, bademail,
\* suspicious and clean
Bodies == {Classify(p) : p \in Payloads}

\* The instants the environment lets the clock reach next: the moment the
\* oldest pending callback falls due, and the last millisecond of a client's
\* window or block and the first one after it.  The clock never jumps over a
\* pending callback.
TimerDues == IF timers = <<>> THEN {} ELSE {Head(timers).due}

ClientInstants ==
    UNION {{rateLimit[ip].resetTime, rateLimit[ip].resetTime + 1} :
              ip \in DOMAIN rateLimit}

TickTargets(extra) ==
    {t \in TimerDues \cup ClientInstants \cup extra :
        /\ t > now
        /\ t <= MaxNow
        /\ \A p \in TimerDues : t <= p}

InFlightCount == BagCardinality(inflight)

\* one client behind a proxy that sets x-forwarded-for
CoreHeaders ==
    {Header("a", NoHeader, NoHeader, len, json) :
        len \in {NoLength, maxRequestSize + 1}, json \in BOOLEAN}

EnvStart(h) ==
    /\ InFlightCount < MaxInFlight
    /\ (now > globalRateLimit.resetTime \/ globalRateLimit.count < MaxBurst)
    /\ PostStart(h)

EnvTick(t) == Tick(t - now)

Next ==
    \/ \E h \in CoreHeaders : EnvStart(h)
    \/ \E r \in BagToSet(inflight), b \in Bodies : PostBody(r, b)
    \/ \E r \in BagToSet(inflight), m \in BOOLEAN, d \in BOOLEAN : PostMail(r, m, d)
    \/ \E r \in BagToSet(inflight) : PostDone(r)
    \/ FireTimer
    \/ \E t \in TickTargets({}) : EnvTick(t)

Spec == Init /\ [][Next]_vars

\* The overload specification: client a, whose requests carry no JSON content
\* type, and client b, whose requests are oversized and so never reach
\* isRateLimited, flood the endpoint within and just beyond one global window.
GlobalHeaders ==
    {Header("a", NoHeader, NoHeader, NoLength, FALSE),
     Header(NoHeader, "b", NoHeader, maxRequestSize + 1, TRUE)}

EnvStartGlobal(h) ==
    /\ (now > globalRateLimit.resetTime \/ globalRateLimit.count < MaxGlobalBurst)
    /\ PostStart(h)

GlobalTickTargets ==
    {t \in TickTargets({globalRateLimit.resetTime + 1}) : t <= MaxGlobalNow}

NextGlobal ==
    \/ \E h \in GlobalHeaders : EnvStartGlobal(h)
    \/ FireTimer
    \/ \E t \in GlobalTickTargets : EnvTick(t)

SpecGlobal == Init /\ [][NextGlobal]_vars

\* The concurrency specification: one client whose requests stay suspended at
\* their awaits, over the first minutes of the process.
EnvStartConc(h) ==
    /\ InFlightCount < MaxConcInFlight
    /\ (now > globalRateLimit.resetTime \/ globalRateLimit.count < MaxBurst)
    /\ PostStart(h)

ConcHeaders == {Header("a", NoHeader, NoHeader, NoLength, TRUE)}

ConcTickTargets == {t \in TickTargets({}) : t <= MaxConcNow}

NextConc ==
    \/ \E h \in ConcHeaders : EnvStartConc(h)
    \/ \E r \in BagToSet(inflight), b \in {"suspicious", "clean"} : PostBody(r, b)
    \/ \E r \in BagToSet(inflight), m \in BOOLEAN, d \in BOOLEAN : PostMail(r, m, d)
    \/ \E r \in BagToSet(inflight) : PostDone(r)
    \/ FireTimer
    \/ \E t \in ConcTickTargets : EnvTick(t)

SpecConc == Init /\ [][NextConc]_vars

\* The script specification: the concurrency specification with every request
\* carrying the same body, a valid name and email and the message
\* <script>alert(1)</script>.
ScriptSubmission == Submission(AnaName, AnaEmail, ScriptAlert)

ScriptBodies == {Classify(ScriptSubmission)}

NextScript ==
    \/ \E h \in ConcHeaders : EnvStartConc(h)
    \/ \E r \in BagToSet(inflight), b \in ScriptBodies : PostBody(r, b)
    \/ \E r \in BagToSet(inflight), m \in BOOLEAN, d \in BOOLEAN : PostMail(r, m, d)
    \/ \E r \in BagToSet(inflight) : PostDone(r)
    \/ FireTimer
    \/ \E t \in ConcTickTargets : EnvTick(t)

SpecScript == Init /\ [][NextScript]_vars

\* The identifier specification: requests that carry any combination of the
\* three address headers, each answered at once, until the first callbacks
\* have run.
IdentHeaders ==
    {Header(xff, xri, cf, NoLength, FALSE) :
        xff \in {NoHeader, "a"}, xri \in {NoHeader, "b"}, cf \in {NoHeader, "c"}}

EnvStartIdent(h) ==
    /\ (now > globalRateLimit.resetTime \/ globalRateLimit.count < MaxBurst)
    /\ PostStart(h)

IdentTickTargets == {t \in TickTargets({}) : t <= MaxIdentNow}

NextIdent ==
    \/ \E h \in IdentHeaders : EnvStartIdent(h)
    \/ FireTimer
    \/ \E t \in IdentTickTargets : EnvTick(t)

SpecIdent == Init /\ [][NextIdent]_vars

\* The specification of failed submissions: one client, none of whose
\* requests passes validation.  A request is either not JSON (400 at line 210)
\* or carries a body that is malformed, incomplete, too long, has a bad email
\* or is flagged as suspicious.
InvalidHeaders == {Header("a", NoHeader, NoHeader, NoLength, json) : json \in BOOLEAN}

InvalidBodies == Bodies \ {"clean"}

NextInvalid ==
    \/ \E h \in InvalidHeaders : EnvStartConc(h)
    \/ \E r \in BagToSet(inflight), b \in InvalidBodies : PostBody(r, b)
    \/ FireTimer
    \/ \E t \in ConcTickTargets : EnvTick(t)

SpecInvalid == Init /\ [][NextInvalid]_vars

\* The specification of two clients: a, identified by x-forwarded-for, and b,
\* identified by x-real-ip, submit JSON requests whose bodies are incomplete
\* or flagged as suspicious, interleaved in every order.
PairHeaders ==
    {Header("a", NoHeader, NoHeader, NoLength, TRUE),
     Header(NoHeader, "b", NoHeader, NoLength, TRUE)}

PairBodies == {"missing", "suspicious"}

NextPair ==
    \/ \E h \in PairHeaders : EnvStart(h)
    \/ \E r \in BagToSet(inflight), b \in PairBodies : PostBody(r, b)
    \/ FireTimer
    \/ \E t \in ConcTickTargets : EnvTick(t)

SpecPair == Init /\ [][NextPair]_vars

\* The header specification: one client whose requests come from pages of
\* several origins, or carry no Origin, with the preflight and the GET
\* handler, over the first minute of the process.
CorsOrigins ==
    {NoHeader, allowedOrigins[1], allowedOrigins[3], "https://evil.example"}

CorsHeaders ==
    {WithOrigin(h, o) : h \in CoreHeaders, o \in CorsOrigins}

NextCors ==
    \/ \E h \in CorsHeaders : EnvStart(h)
    \/ \E r \in BagToSet(inflight), b \in Bodies : PostBody(r, b)
    \/ \E r \in BagToSet(inflight), m \in BOOLEAN, d \in BOOLEAN : PostMail(r, m, d)
    \/ \E r \in BagToSet(inflight) : PostDone(r)
    \/ FireTimer
    \/ \E t \in ConcTickTargets : EnvTick(t)
    \/ \E o \in CorsOrigins : OPTIONS(o)
    \/ \E o \in CorsOrigins : GET(o)

SpecCors == Init /\ [][NextCors]_vars

\* The sanitizer specification: sanitizeInput applied twice over to every
\* string of at most MaxSanLen characters of SanAlphabet, and to the strings
\* of SanSamples, cut to MaxSanLen - 1 characters or to maxNameLength.
SanAlphabet == {" ", "a", "<", "o", "n", "="}

RECURSIVE StringsUpTo(_)
StringsUpTo(n) ==
    IF n = 0 THEN {<<>>}
    ELSE LET shorter == StringsUpTo(n - 1)
         IN  shorter \cup {Append(t, c) : t \in shorter, c \in SanAlphabet}

\* jadata:vascript: and onclick=
SanSamples ==
    {<<"j", "a", "d", "a", "t", "a", ":", "v", "a", "s", "c", "r", "i", "p", "t", ":">>,
     <<"o", "n", "c", "l", "i", "c", "k", "=">>,
     ScriptAlert}

SanInputs == StringsUpTo(MaxSanLen) \cup SanSamples

InitSanitize ==
    /\ InitServer
    /\ san \in {SanCall(s, m) : s \in SanInputs, m \in {MaxSanLen - 1, maxNameLength}}

NextSanitize == SanitizeOnce \/ SanitizeTwice

SpecSanitize == InitSanitize /\ [][NextSanitize]_vars

\* the requests of client ip that were admitted and have not been answered
InFlightOf(ip) == BagCardinality([r \in {x \in BagToSet(inflight) : x.ip = ip} |-> inflight[r]])


(* ---------------- properties ---------------- *)

\* The step is a POST that went through isRateLimited for client ip.
Checked(ip) == resp'.op = "start" /\ resp'.ip = ip /\ resp'.rl # "skipped"

Admitted(ip) == Checked(ip) /\ resp'.rl = "admitted"

Rejected(ip) == Checked(ip) /\ resp'.rl = "rejected" /\ resp'.status = 429

InWindow(e) == now <= e.resetTime

\* C1: a request that reaches the rate check with maxRequests requests already
\* admitted in the window is rejected and blocks the entry until now + 1 hour;
\* the block and its expiry stay as they are through every step that is not a
\* request of that client.
C1_RateCheckBlocks ==
    [][\A ip \in DOMAIN rateLimit :
        LET e == rateLimit[ip] IN
        /\ (/\ Checked(ip)
            /\ InWindow(e) /\ ~e.blocked
            /\ e.concurrentRequests < maxConcurrentRequests
            /\ e.suspiciousAttempts < suspiciousPatternThreshold
            /\ e.count >= maxRequests)
           => /\ Rejected(ip)
              /\ rateLimit'[ip].blocked
              /\ rateLimit'[ip].resetTime = now + blockMs
        /\ (e.blocked /\ ~(resp'.op = "start" /\ resp'.ip = ip))
           => /\ rateLimit'[ip].blocked
              /\ rateLimit'[ip].resetTime = e.resetTime
    ]_vars

\* the sixth request of a window has just blocked the client
C1_Witness ==
    \E ip \in DOMAIN rateLimit :
        /\ resp.op = "start" /\ resp.ip = ip /\ resp.rl = "rejected"
        /\ rateLimit[ip].blocked
        /\ rateLimit[ip].count = maxRequests
        /\ rateLimit[ip].suspiciousAttempts < suspiciousPatternThreshold
        /\ rateLimit[ip].resetTime = now + blockMs

\* C2: while an entry is blocked, a request of the client at now <= resetTime
\* is rejected by isRateLimited; the first one at now > resetTime is admitted
\* with a fresh entry.
C2_BlockedUntilExpiry ==
    [][\A ip \in DOMAIN rateLimit :
        LET e == rateLimit[ip] IN
        (Checked(ip) /\ e.blocked)
        => IF now <= e.resetTime
           THEN Rejected(ip)
           ELSE /\ Admitted(ip)
                /\ rateLimit'[ip].count = 1
                /\ ~rateLimit'[ip].blocked
                /\ rateLimit'[ip].resetTime = now + windowMs
    ]_vars

\* a request arriving in the very last millisecond of a block was rejected
C2_Witness ==
    \E ip \in DOMAIN rateLimit :
        /\ resp.op = "start" /\ resp.ip = ip /\ resp.rl = "rejected"
        /\ rateLimit[ip].blocked
        /\ now = rateLimit[ip].resetTime

\* C3 as stated: a request that is at most the fifth of its window, with the
\* concurrency limit not reached, is admitted.
C3_Original ==
    [][\A ip \in DOMAIN rateLimit :
        LET e == rateLimit[ip] IN
        (/\ Checked(ip)
         /\ InWindow(e)
         /\ e.count < maxRequests
         /\ e.concurrentRequests < maxConcurrentRequests)
        => Admitted(ip)
    ]_vars

\* C3 amended: a request that is at most the fifth of its window, with the
\* concurrency limit not reached and fewer than suspiciousPatternThreshold
\* suspicious submissions on the entry, is admitted; so is the first request
\* of a client and the first after its window.
C3_WithinBudgetAdmitted ==
    [][\A ip \in {resp'.ip} :
        Checked(ip) =>
            IF ip \notin DOMAIN rateLimit THEN Admitted(ip)
            ELSE LET e == rateLimit[ip] IN
                 (\/ ~InWindow(e)
                  \/ /\ e.count < maxRequests
                     /\ e.concurrentRequests < maxConcurrentRequests
                     /\ e.suspiciousAttempts < suspiciousPatternThreshold)
                 => Admitted(ip)
    ]_vars

\* the fifth request of a window was admitted
C3_Witness ==
    \E ip \in DOMAIN rateLimit :
        /\ resp.op = "start" /\ resp.ip = ip /\ resp.rl = "admitted"
        /\ rateLimit[ip].count = maxRequests
        /\ rateLimit[ip].lastRequestTime = now

C6_Original ==
    [][\A ip \in DOMAIN rateLimit :
        LET e == rateLimit[ip] IN
        (/\ Checked(ip)
         /\ now - (e.resetTime - windowMs) < requestTimeout
         /\ ~e.blocked
         /\ e.suspiciousAttempts = 0
         /\ e.count < maxRequests)
        => Admitted(ip)
    ]_vars

\* C7 as stated: the request that overwrites an expired entry that is not
\* blocked keeps the suspiciousAttempts the entry had.
C7_Original ==
    [][\A ip \in DOMAIN rateLimit :
        LET e == rateLimit[ip] IN
        (Checked(ip) /\ ~e.blocked /\ now > e.resetTime)
        => rateLimit'[ip].suspiciousAttempts = e.suspiciousAttempts
    ]_vars

\* C8 as stated: every request isRateLimited admits schedules one decrement
\* of concurrentRequests, due requestTimeout later.
C8_Original ==
    [][\A ip \in {resp'.ip} :
        Admitted(ip)
        => /\ Len(timers') = Len(timers) + 1
           /\ timers'[Len(timers')] = [ip |-> ip, due |-> now + requestTimeout]
    ]_vars

\* C9 as stated: a blocked entry is replaced by a fresh one by the first
\* access at now >= resetTime.
C9_Original ==
    [][\A ip \in DOMAIN rateLimit :
        LET e == rateLimit[ip] IN
        (Checked(ip) /\ e.blocked /\ now >= e.resetTime)
        => /\ rateLimit'[ip].count = 1
           /\ rateLimit'[ip].concurrentRequests = 1
           /\ rateLimit'[ip].suspiciousAttempts = 0
           /\ ~rateLimit'[ip].blocked
    ]_vars

\* C9 amended: a blocked entry stays blocked, with the same resetTime, through
\* every step but one: the first access of its client at now > resetTime,
\* which replaces the whole entry with a fresh one (count = 1,
\* concurrentRequests = 1, suspiciousAttempts = 0, blocked = false).
C9_BlockedNeverCleared ==
    [][\A ip \in DOMAIN rateLimit :
        LET e == rateLimit[ip] IN
        e.blocked =>
            IF Checked(ip) /\ now > e.resetTime
            THEN rateLimit'[ip] =
                    [count |-> 1, resetTime |-> now + windowMs, blocked |-> FALSE,
                     suspiciousAttempts |-> 0, lastRequestTime |-> now,
                     concurrentRequests |-> 1]
            ELSE /\ rateLimit'[ip].blocked
                 /\ rateLimit'[ip].resetTime = e.resetTime
    ]_vars

\* a block has run out and its entry, not accessed since, is still blocked
C9_Witness ==
    \E ip \in DOMAIN rateLimit :
        /\ rateLimit[ip].blocked
        /\ now > rateLimit[ip].resetTime

\* C5: within a global window, once globalRateLimit.count exceeds
\* globalRateLimit.maxRequests every further POST is answered 503, whoever
\* sends it, and leaves the map as it is.
C5_GlobalOverload ==
    [][(/\ resp'.op = "start"
        /\ now <= globalRateLimit.resetTime
        /\ globalRateLimit.count > globalMaxRequests)
       => /\ resp'.status = 503
          /\ rateLimit' = rateLimit
    ]_vars

\* a client that has no entry was answered 503 after the counter had passed
\* the limit
C5_Witness ==
    /\ resp.op = "start" /\ resp.status = 503
    /\ resp.ip \notin DOMAIN rateLimit
    /\ globalRateLimit.count > globalMaxRequests + 1

\* C10 as stated: no client ever has more than maxConcurrentRequests requests
\* admitted and not yet answered.
C10_Original ==
    \A ip \in DOMAIN rateLimit : InFlightOf(ip) <= maxConcurrentRequests

\* The pending callbacks of client ip that were scheduled before its present
\* entry was created: each stands for a request admitted less than
\* requestTimeout ago, under the entry that has since been overwritten.
EarlierAdmissions(ip) ==
    {i \in 1..Len(timers) :
        /\ timers[i].ip = ip
        /\ timers[i].due - requestTimeout < rateLimit[ip].resetTime - windowMs}

C12_Original ==
    [][\A r \in BagToSet(inflight) :
        (r.pc = "json" /\ resp'.op \in {"body", "suspicious"} /\ resp'.ip = r.ip)
        => /\ resp'.op = "suspicious"
           /\ resp'.status = 400
           /\ rateLimit'[r.ip].suspiciousAttempts
                = rateLimit[r.ip].suspiciousAttempts + 1
    ]_vars

\* C13 as stated: sanitizing the result of sanitizeInput once more, with the
\* same maxLength, returns it unchanged.
C13_Original ==
    san.passes = 2 => san.twice = san.once

\* C14: a submission that has passed the global check, the per-client check
\* and the content validation (it awaits sendMail) goes on to the delay
\* whether sendMail resolved or threw and whether the store succeeded or
\* threw, without a response being sent; and a request in the delay leaves it
\* only by the 200 response.
C14_FailuresStillAnswer200 ==
    [][/\ resp'.op = "mail"
          => /\ resp'.status = 0
             /\ \E r \in BagToSet(inflight) :
                  /\ r.pc = "mail" /\ r.ip = resp'.ip
                  /\ inflight' = (inflight (-) SetToBag({r}))
                        (+) SetToBag({[r EXCEPT !.pc = "sleep",
                                                !.due = now + processingDelay]})
       /\ \A r \in BagToSet(inflight) :
            r.pc = "sleep"
            => \/ CopiesIn(r, inflight') >= CopiesIn(r, inflight)
               \/ /\ resp'.op = "done" /\ resp'.status = 200 /\ resp'.ip = r.ip
                  /\ inflight' = inflight (-) SetToBag({r})
    ]_vars

\* sendMail threw and the store threw, and the request is in the delay that
\* ends with the 200 response
C14_Witness ==
    /\ resp.op = "mail" /\ ~resp.io.sent /\ ~resp.io.stored
    /\ \E r \in BagToSet(inflight) : r.pc = "sleep" /\ r.ip = resp.ip

\* a response has been sent by the last step
Responded == resp.status # 0

\* C15 as stated: every response, of POST with any status, of OPTIONS and of
\* GET, carries Access-Control-Allow-Origin and each of the security headers.
C15_Original ==
    Responded
    => /\ "Access-Control-Allow-Origin" \in DOMAIN resp.headers
       /\ {"X-Content-Type-Options", "X-Frame-Options", "X-XSS-Protection",
           "Referrer-Policy", "Permissions-Policy", "Content-Security-Policy"}
             \subseteq DOMAIN resp.headers

\* C16 as stated: the Access-Control-Allow-Origin of a response that carries
\* one is the request's Origin when that is one of allowedOrigins and
\* allowedOrigins[0] otherwise, so always one of allowedOrigins.
C16_Original ==
    (Responded /\ "Access-Control-Allow-Origin" \in DOMAIN resp.headers)
    => LET allowed == {allowedOrigins[i] : i \in 1..Len(allowedOrigins)}
           value == resp.headers["Access-Control-Allow-Origin"]
       IN  /\ value \in allowed
           /\ value = IF resp.origin \in allowed THEN resp.origin
                      ELSE allowedOrigins[1]

\* C17: the key a request is checked under is the first non-empty of its
\* x-forwarded-for, x-real-ip and cf-connecting-ip headers, and 'unknown' when
\* it has none; the check touches the entry of that key and no other, so the
\* requests without these headers are all counted, and admitted or rejected,
\* on the one entry of 'unknown'.
C17_ClientKey ==
    [][(resp'.op = "start" /\ resp'.rl # "skipped")
       => LET candidates == <<resp'.req.xff, resp'.req.xri, resp'.req.cf, "unknown">>
              first == CHOOSE i \in 1..4 :
                          /\ candidates[i] # ""
                          /\ \A j \in 1..(i - 1) : candidates[j] = ""
              key == candidates[first]
          IN  /\ resp'.ip = key
              /\ DOMAIN rateLimit' = DOMAIN rateLimit \cup {key}
              /\ \A k \in DOMAIN rateLimit \ {key} : rateLimit'[k] = rateLimit[k]
              /\ resp'.rl = "admitted"
                 => rateLimit'[key].count =
                        IF NeedsNewEntry(rateLimit, key, now) THEN 1
                        ELSE rateLimit[key].count + 1
    ]_vars

\* a request without any of the three headers was turned away because of the
\* requests without headers admitted before it
C17_Witness ==
    /\ resp.op = "start" /\ resp.req = NoReq
    /\ resp.ip = "unknown" /\ resp.rl = "rejected"
    /\ rateLimit["unknown"].count = maxConcurrentRequests

\* C18 as stated: globalRateLimit.count never exceeds
\* globalRateLimit.maxRequests + 1.
C18_Original ==
    globalRateLimit.count <= globalMaxRequests + 1

\* C18 amended: every POST received at now <= globalRateLimit.resetTime adds
\* one to globalRateLimit.count, the POSTs answered 503 included; the first
\* POST after resetTime sets it to 1 and opens a new window; no other step
\* changes the counter.
C18_EveryPostCounted ==
    [][IF resp'.op = "start"
       THEN IF now > globalRateLimit.resetTime
            THEN /\ globalRateLimit'.count = 1
                 /\ globalRateLimit'.resetTime = now + globalWindowMs
            ELSE /\ globalRateLimit'.count = globalRateLimit.count + 1
                 /\ globalRateLimit'.resetTime = globalRateLimit.resetTime
       ELSE globalRateLimit' = globalRateLimit
    ]_vars

\* the second POST turned away in an overload has been counted as well
C18_Witness ==
    /\ resp.op = "start" /\ resp.status = 503
    /\ globalRateLimit.count = globalMaxRequests + 2
    /\ now <= globalRateLimit.resetTime

\* C19: a key that is in the map rateLimit stays in it through every step, be
\* it a request, one that overwrites an expired entry included, or a callback.
C19_KeysOnlyGrow ==
    [][DOMAIN rateLimit \subseteq DOMAIN rateLimit']_vars

\* an entry that had expired has just been overwritten by a request of its
\* client, and no callback is pending
C19_Witness ==
    \E ip \in DOMAIN rateLimit :
        /\ resp.op = "start" /\ resp.ip = ip /\ resp.rl = "admitted"
        /\ rateLimit[ip].count = 1
        /\ rateLimit[ip].resetTime = now + windowMs
        /\ now > windowMs
        /\ timers = <<>>

\* the requests that isRateLimited admitted and whose body is still being read
AwaitingVerdict == {r \in BagToSet(inflight) : r.pc = "json"}

\* C20 as stated: between the admission of a request by isRateLimited and the
\* verdict on its content, no other request is checked by isRateLimited and
\* no deferred decrement runs.
C20_Original ==
    [][AwaitingVerdict # {}
       => /\ resp'.op # "timer"
          /\ ~(resp'.op = "start" /\ resp'.rl # "skipped")
    ]_vars

\* C20 amended: a request runs its admission checks as one step, which ends at
\* await request.json() with the request suspended, no verdict on its content
\* and the suspiciousAttempts of an entry it did not overwrite unchanged; the
\* content validation, with the increment of suspiciousAttempts and the 400
\* of a suspicious submission, is a second step, taken when the body has been
\* read; admission checks of other requests and deferred decrements can run
\* between the two.
C20_TwoSteps ==
    [][/\ \A ip \in {resp'.ip} :
            (Admitted(ip) /\ resp'.status = 0)
            => /\ inflight' = inflight (+) SetToBag({[ip |-> ip, pc |-> "json", due |-> 0,
                                                      origin |-> resp'.origin]})
               /\ ~NeedsNewEntry(rateLimit, ip, now)
                  => rateLimit'[ip].suspiciousAttempts = rateLimit[ip].suspiciousAttempts
       /\ resp'.op = "suspicious"
          => /\ resp'.status = 400
             /\ \E r \in AwaitingVerdict :
                  /\ r.ip = resp'.ip
                  /\ inflight' = inflight (-) SetToBag({r})
                  /\ rateLimit' = [rateLimit EXCEPT ![r.ip].suspiciousAttempts = @ + 1]
    ]_vars

\* a request was admitted while another, admitted before it, still awaits the
\* verdict on its content, with a suspicious submission already on the entry
C20_Witness ==
    /\ resp.op = "start" /\ resp.rl = "admitted" /\ resp.status = 0
    /\ \E r \in AwaitingVerdict : r.ip = resp.ip /\ CopiesIn(r, inflight) >= 2
    /\ rateLimit[resp.ip].suspiciousAttempts >= 1

\* C21: isRateLimited decides in the order expiry or creation, blocked,
\* concurrency, suspicious threshold, rate.  A request that finds the entry
\* missing or expired is admitted with a fresh entry; otherwise one that finds
\* it blocked, or finds concurrentRequests >= maxConcurrentRequests, is
\* rejected and leaves the entry as it is (blocked not set, resetTime kept),
\* whatever suspiciousAttempts and count are; only then do the suspicious
\* threshold and the rate block the entry.
C21_CheckOrder ==
    [][\A ip \in {resp'.ip} :
        Checked(ip) =>
            IF ip \notin DOMAIN rateLimit \/ now > rateLimit[ip].resetTime
            THEN /\ Admitted(ip)
                 /\ rateLimit'[ip].count = 1
                 /\ rateLimit'[ip].concurrentRequests = 1
                 /\ ~rateLimit'[ip].blocked
            ELSE LET e == rateLimit[ip] IN
                 IF e.blocked \/ e.concurrentRequests >= maxConcurrentRequests
                 THEN Rejected(ip) /\ rateLimit'[ip] = e
                 ELSE IF \/ e.suspiciousAttempts >= suspiciousPatternThreshold
                         \/ e.count >= maxRequests
                 THEN /\ Rejected(ip)
                      /\ rateLimit'[ip] =
                            [e EXCEPT !.blocked = TRUE, !.resetTime = now + blockMs]
                 ELSE /\ Admitted(ip)
                      /\ rateLimit'[ip].count = e.count + 1
                      /\ rateLimit'[ip].resetTime = e.resetTime
    ]_vars

\* a request was rejected for concurrency, and not blocked, although the
\* window's budget was used up as well
C21_Witness ==
    \E ip \in DOMAIN rateLimit :
        /\ resp.op = "start" /\ resp.ip = ip /\ resp.rl = "rejected"
        /\ ~rateLimit[ip].blocked
        /\ now <= rateLimit[ip].resetTime
        /\ rateLimit[ip].concurrentRequests >= maxConcurrentRequests
        /\ rateLimit[ip].count >= maxRequests

\* C22: a POST refused by the global budget (503) neither reads nor writes
\* per-client state: the rateLimit map, the pending deferred decrements and
\* the requests in flight are the same after the step as before it.
C22_GlobalRejectionTouchesNoClient ==
    [][resp'.op = "start" /\ resp'.status = 503 =>
           /\ rateLimit' = rateLimit
           /\ timers' = timers
           /\ inflight' = inflight
           /\ resp'.rl = "skipped"]_vars

\* A 503 answered to a client that has an entry which a limiter call would
\* have changed (still in its window, not blocked, below every limit).
C22_Witness ==
    /\ resp.op = "start" /\ resp.status = 503
    /\ resp.ip \in DOMAIN rateLimit
    /\ LET e == rateLimit[resp.ip] IN
            /\ ~e.blocked
            /\ now <= e.resetTime
            /\ e.concurrentRequests < maxConcurrentRequests
            /\ e.count < maxRequests

\* C23: a client that is not blocked and has sent nothing for requestTimeout
\* (so every deferred decrement of its admitted requests has run) is no longer
\* held back by the concurrency check: its entry has concurrentRequests below
\* the maximum, and its next request that reaches the limiter is admitted when
\* the entry is below the suspicious threshold and the count budget.  A
\* request refused by the concurrency check is later than the last admitted
\* one, so silence since the refusal implies silence since lastRequestTime.
C23_ConcurrencyRejectionClears ==
    [][\A ip \in {resp'.ip} :
          /\ Checked(ip)
          /\ ip \in DOMAIN rateLimit
          /\ ~rateLimit[ip].blocked
          /\ now >= rateLimit[ip].lastRequestTime + requestTimeout
          /\ rateLimit[ip].suspiciousAttempts < suspiciousPatternThreshold
          /\ rateLimit[ip].count < maxRequests
          => /\ rateLimit[ip].concurrentRequests < maxConcurrentRequests
             /\ Admitted(ip)
             /\ {i \in 1..Len(timers) : timers[i].ip = ip} = {}]_vars

\* A request refused by the concurrency check alone, with decrements pending
\* and with enough of the window left to ask again after requestTimeout.
C23_Witness ==
    \E ip \in DOMAIN rateLimit :
        /\ resp.op = "start" /\ resp.ip = ip /\ resp.rl = "rejected"
        /\ ~rateLimit[ip].blocked
        /\ rateLimit[ip].concurrentRequests >= maxConcurrentRequests
        /\ rateLimit[ip].suspiciousAttempts < suspiciousPatternThreshold
        /\ rateLimit[ip].count < maxRequests
        /\ now + requestTimeout <= rateLimit[ip].resetTime
        /\ \E i \in 1..Len(timers) : timers[i].ip = ip

\* C24: the record of a suspicious payload adds exactly 1 to the
\* suspiciousAttempts of the entry stored for the client and changes no other
\* field of it, no other entry, not the global counter and not the pending
\* decrements; with no entry for the client the limiter state is unchanged.
C24_SuspiciousRecordOnly ==
    [][resp'.op = "suspicious" =>
           /\ globalRateLimit' = globalRateLimit
           /\ timers' = timers
           /\ DOMAIN rateLimit' = DOMAIN rateLimit
           /\ \A k \in DOMAIN rateLimit :
                 rateLimit'[k] =
                     IF k = resp'.ip
                     THEN [count              |-> rateLimit[k].count,
                           resetTime          |-> rateLimit[k].resetTime,
                           blocked            |-> rateLimit[k].blocked,
                           concurrentRequests |-> rateLimit[k].concurrentRequests,
                           lastRequestTime    |-> rateLimit[k].lastRequestTime,
                           suspiciousAttempts |-> rateLimit[k].suspiciousAttempts + 1]
                     ELSE rateLimit[k]]_vars

\* The record that takes the entry to the threshold: the entry is not blocked
\* by it.
C24_Witness ==
    /\ resp.op = "suspicious"
    /\ resp.ip \in DOMAIN rateLimit
    /\ rateLimit[resp.ip].suspiciousAttempts = suspiciousPatternThreshold
    /\ ~rateLimit[resp.ip].blocked

\* C25: a deferred decrement looks its client up when it runs and lowers the
\* concurrentRequests of the entry stored then (not below 0), whether or not
\* that entry is the one its request was admitted against; it changes no other
\* field and no other entry.
C25_DecrementHitsStoredEntry ==
    [][resp'.op = "timer" =>
           /\ DOMAIN rateLimit' = DOMAIN rateLimit
           /\ \A k \in DOMAIN rateLimit :
                 rateLimit'[k] =
                     IF k = resp'.ip
                     THEN [rateLimit[k] EXCEPT !.concurrentRequests =
                               IF rateLimit[k].concurrentRequests >= 1
                               THEN rateLimit[k].concurrentRequests - 1
                               ELSE 0]
                     ELSE rateLimit[k]]_vars

\* A decrement scheduled against the expired entry has just run on its
\* replacement: concurrentRequests is 0 less than requestTimeout after the
\* replacement was created with concurrentRequests = 1.
C25_Witness ==
    \E ip \in DOMAIN rateLimit :
        /\ resp.op = "timer" /\ resp.ip = ip
        /\ ~rateLimit[ip].blocked
        /\ rateLimit[ip].count = 1
        /\ rateLimit[ip].concurrentRequests = 0
        /\ now < (rateLimit[ip].resetTime - windowMs) + requestTimeout

\* C26: in every reachable state every entry has
\* 0 <= concurrentRequests <= maxConcurrentRequests.
C26_ConcurrentRequestsBounded ==
    \A ip \in DOMAIN rateLimit :
        /\ rateLimit[ip].concurrentRequests >= 0
        /\ rateLimit[ip].concurrentRequests <= maxConcurrentRequests

\* The admission that takes an entry to the maximum, followed at once by a
\* request that finds it there.
C26_Witness ==
    \E ip \in DOMAIN rateLimit :
        /\ resp.op = "start" /\ resp.ip = ip /\ resp.rl = "admitted"
        /\ rateLimit[ip].concurrentRequests = maxConcurrentRequests
        /\ rateLimit[ip].lastRequestTime = now
        /\ Len(timers) = maxConcurrentRequests - 1

\* C27: every entry has 1 <= count <= maxRequests, and an entry becomes
\* blocked only in a step that found it with count = maxRequests or with
\* suspiciousAttempts >= suspiciousPatternThreshold; a blocked entry still
\* shows one of the two.
C27_CountBoundedBlockedForCause ==
    [][/\ \A ip \in DOMAIN rateLimit' :
             /\ rateLimit'[ip].count >= 1
             /\ rateLimit'[ip].count <= maxRequests
       /\ \A ip \in DOMAIN rateLimit' :
             rateLimit'[ip].blocked /\ ~(ip \in DOMAIN rateLimit /\ rateLimit[ip].blocked)
             => /\ ip \in DOMAIN rateLimit
                /\ \/ rateLimit[ip].count = maxRequests
                   \/ rateLimit[ip].suspiciousAttempts >= suspiciousPatternThreshold
       /\ \A ip \in DOMAIN rateLimit' :
             rateLimit'[ip].blocked
             => \/ rateLimit'[ip].count = maxRequests
                \/ rateLimit'[ip].suspiciousAttempts >= suspiciousPatternThreshold]_vars

\* An entry has just been blocked with both causes present: the budget used
\* up and the suspicious threshold reached.
C27_Witness ==
    \E ip \in DOMAIN rateLimit :
        /\ resp.op = "start" /\ resp.ip = ip /\ resp.rl = "rejected"
        /\ rateLimit[ip].blocked
        /\ rateLimit[ip].count = maxRequests
        /\ rateLimit[ip].suspiciousAttempts >= suspiciousPatternThreshold
        /\ rateLimit[ip].resetTime = now + blockMs

\* C28: a request that isRateLimited rejects leaves the count,
\* concurrentRequests, suspiciousAttempts and lastRequestTime of its client's
\* entry as they were and schedules no deferred decrement; when the entry was
\* already blocked the whole entry, resetTime included, is unchanged, so a
\* request during a block does not extend it.
C28_RejectionLeavesCounters ==
    [][\A ip \in {resp'.ip} :
          Rejected(ip) =>
              /\ ip \in DOMAIN rateLimit
              /\ rateLimit'[ip].count = rateLimit[ip].count
              /\ rateLimit'[ip].concurrentRequests = rateLimit[ip].concurrentRequests
              /\ rateLimit'[ip].suspiciousAttempts = rateLimit[ip].suspiciousAttempts
              /\ rateLimit'[ip].lastRequestTime = rateLimit[ip].lastRequestTime
              /\ timers' = timers
              /\ (rateLimit[ip].blocked => rateLimit' = rateLimit)]_vars

\* A request refused in the middle of a block: the block ends when it was
\* going to end.
C28_Witness ==
    \E ip \in DOMAIN rateLimit :
        /\ resp.op = "start" /\ resp.ip = ip /\ resp.rl = "rejected"
        /\ rateLimit[ip].blocked
        /\ now > rateLimit[ip].lastRequestTime
        /\ rateLimit[ip].resetTime < now + blockMs
        /\ now < rateLimit[ip].resetTime

OwnEntry(ip) == [k \in DOMAIN rateLimit \cap {ip} |-> rateLimit[k]]

\* C30: no step changes the entry of a client other than the one the step
\* belongs to (the sender of the request, the client of the suspicious record,
\* the client of the deferred decrement), and the limiter's verdict on a
\* request, with the entry it leaves, is what isRateLimited yields on a map
\* that holds the sender's entry alone: the entries of other clients have no
\* part in it.  The global counter is shared: every POST adds one to it.
C30_ClientIsolation ==
    [][/\ \A k \in DOMAIN rateLimit :
             k # resp'.ip => k \in DOMAIN rateLimit' /\ rateLimit'[k] = rateLimit[k]
       /\ \A ip \in {resp'.ip} :
             Checked(ip) =>
                 LET own == isRateLimited(OwnEntry(ip), ip, now) IN
                     /\ Rejected(ip) <=> own.limited
                     /\ Admitted(ip) <=> ~own.limited
                     /\ rateLimit'[ip] = own.map[ip]
       /\ resp'.op = "start" =>
              globalRateLimit'.count =
                  IF now > globalRateLimit.resetTime THEN 1 ELSE globalRateLimit.count + 1]_vars

\* One client is blocked for its suspicious submissions, with a decrement of
\* its own still pending, and a request of the other client has just been
\* admitted.
C30_Witness ==
    \E a \in DOMAIN rateLimit, b \in DOMAIN rateLimit :
        /\ a # b
        /\ resp.op = "start" /\ resp.ip = b /\ resp.rl = "admitted"
        /\ rateLimit[a].blocked
        /\ rateLimit[a].suspiciousAttempts >= suspiciousPatternThreshold
        /\ rateLimit[b].count > 1
        /\ \E i \in 1..Len(timers) : timers[i].ip = a

====
